---------------------------- MODULE Spec2Model ----------------------------
(* Model of src/src/analyzer/general_analyzer.cc: the dependency           *)
(* classifier analyzeDependTypes, the page-level hot-write simulator       *)
(* analyzeHotWrite and the driver analyze.                                 *)
EXTENDS Integers, Sequences, FiniteSets, TLC

PAGE_SIZE == 4096

MaxTrace == 3
MaxTraceRerun == 2
MaxRuns == 2

VARIABLES vTraceData, mReadCentric, mWriteCentric,
          pc, ti,
          indepReads, depShortReads, depLongReads,
          indepWrites, depShortWrites, depLongWrites,
          writesLeft, write, pageStart, pageEnd, pageNum, readCounts,
          readsLeft, read, idxAccessed,
          readCountsTotal, countDuplicate, stdout, run

inputs == <<vTraceData, mReadCentric, mWriteCentric>>
readBD == <<indepReads, depShortReads, depLongReads>>
writeBD == <<indepWrites, depShortWrites, depLongWrites>>
writeFrame == <<write, pageStart, pageEnd, pageNum, readCounts>>
readFrame == <<readsLeft, read, idxAccessed>>
hotFrame == <<writesLeft, writeFrame, readFrame, readCountsTotal, countDuplicate>>
vars == <<inputs, pc, ti, readBD, writeBD, hotFrame, stdout, run>>

-----------------------------------------------------------------------------
(* Helpers for the standard containers.                                    *)

Max(a, b) == IF a >= b THEN a ELSE b
Min(a, b) == IF a <= b THEN a ELSE b

SetMin(S) == CHOOSE x \in S : \A y \in S : x <= y

EmptyMap == [k \in {} |-> {}]

\* std::map::count
MapCount(m, k) == IF k \in DOMAIN m THEN 1 ELSE 0

\* std::map::operator[] : the map after the access (a missing key is
\* inserted with a value-initialised mapped value)
MapIndex(m, k, dflt) == IF k \in DOMAIN m THEN m ELSE m @@ (k :> dflt)

\* (*vTraceData)[id]
At(v, id) == v[id + 1]

-----------------------------------------------------------------------------
(* analyzeDependTypes, one iteration of its loop.                          *)

DirectionMatches(trace, isRead) == trace.isRead = isRead

IsLongAtLeastOne(n) == n >= 1
IsLong(n) == n > 1

DependTypeNoElse(mCentric, id) ==
  IF MapCount(mCentric, id) # 0
  THEN IF IsLong(Cardinality(MapIndex(mCentric, id, {})[id]))
       THEN {"depLong", "depShort"}
       ELSE {"depShort"}
  ELSE {"indep"}
\* the set of counters the body of lines 50-57 increments
DependType(mCentric, id) ==
  IF MapCount(mCentric, id) # 0
  THEN IF IsLong(Cardinality(MapIndex(mCentric, id, {})[id]))
       THEN {"depLong"}
       ELSE {"depShort"}
  ELSE {"indep"}

\* the map after lines 50-52: operator[] is reached only when count() # 0
DependMap(mCentric, id) ==
  IF MapCount(mCentric, id) # 0 THEN MapIndex(mCentric, id, {}) ELSE mCentric

Bump(c, name, incs) == IF name \in incs THEN c + 1 ELSE c

analyzeDependTypes(trace, mCentric, isRead, indep, depShort, depLong) ==
  IF DirectionMatches(trace, isRead)
  THEN LET incs == DependType(mCentric, trace.id)
       IN  [m        |-> DependMap(mCentric, trace.id),
            indep    |-> Bump(indep, "indep", incs),
            depShort |-> Bump(depShort, "depShort", incs),
            depLong  |-> Bump(depLong, "depLong", incs)]
  ELSE [m |-> mCentric, indep |-> indep, depShort |-> depShort,
        depLong |-> depLong]

-----------------------------------------------------------------------------
(* analyzeHotWrite, page arithmetic.                                       *)

PageStartOf(t) == t.sLBA \div PAGE_SIZE
PageEndOf(t) == (t.sLBA + t.nLB) \div PAGE_SIZE

PageNumNoPlusOne(pStart, pEnd) == pEnd - pStart
PageNum(pStart, pEnd) == pEnd - pStart + 1

ReadStartOverlapNoMax(pStart, readStartReal) == readStartReal
ReadStartOverlap(pStart, readStartReal) == Max(pStart, readStartReal)

ReadEndOverlapNoMin(pEnd, readEndReal) == pEnd
ReadEndOverlap(pEnd, readEndReal) == Min(pEnd, readEndReal)

ReadOffset(readStartOverlap, pStart) == readStartOverlap - pStart

ReadNumNoPlusOne(readStartOverlap, readEndOverlap) ==
  readEndOverlap - readStartOverlap
ReadNum(readStartOverlap, readEndOverlap) ==
  readEndOverlap - readStartOverlap + 1

\* the indices readOffset + i of line 105
ReadIndices(v, pStart, pEnd, r) ==
  LET readStartReal == PageStartOf(At(v, r))
      readEndReal == PageEndOf(At(v, r))
      readStartOverlap == ReadStartOverlap(pStart, readStartReal)
      readEndOverlap == ReadEndOverlap(pEnd, readEndReal)
      readOffset == ReadOffset(readStartOverlap, pStart)
      readNum == ReadNum(readStartOverlap, readEndOverlap)
  IN  {readOffset + i : i \in 0 .. (readNum - 1)}

\* An access outside new int32_t[pageNum] is undefined behaviour: the run
\* may abort, or go on with memory outside the array overwritten.
AccessOutcomes(idx, pNum) ==
  IF idx \subseteq 0 .. (pNum - 1) THEN {"defined"} ELSE {"abort", "corrupt"}

RECURSIVE PushBackAll(_, _, _, _)
\* lines 109-111
PushBackAll(total, counts, i, pNum) ==
  IF i < pNum THEN PushBackAll(Append(total, counts[i]), counts, i + 1, pNum)
  ELSE total

FreshCountsKeepOld(old) == old
\* line 76: the flat sequence is a local, empty at every call
FreshCounts(old) == << >>

RECURSIVE CountDuplicate(_, _, _)
\* lines 115-117: countDuplicate[val]++ for each element
CountDuplicate(total, i, m) ==
  IF i > Len(total) THEN m
  ELSE LET val == total[i]
           m1 == MapIndex(m, val, 0)
       IN  CountDuplicate(total, i + 1, [m1 EXCEPT ![val] = @ + 1])

SetMax(S) == CHOOSE x \in S : \A y \in S : x >= y

RECURSIVE HotFirstDescending(_, _)
HotFirstDescending(m, keys) ==
  IF keys = {} THEN << >>
  ELSE LET k == SetMax(keys) IN <<k>> \o HotFirstDescending(m, keys \ {k})

RECURSIVE HotFirst(_, _)
\* lines 121-123: the keys, in the map's iteration order
HotFirst(m, keys) ==
  IF keys = {} THEN << >>
  ELSE LET k == SetMin(keys) IN <<k>> \o HotFirst(m, keys \ {k})

RECURSIVE HotSecond(_, _)
\* lines 125-127: the mapped values, in the map's iteration order
HotSecond(m, keys) ==
  IF keys = {} THEN << >>
  ELSE LET k == SetMin(keys) IN <<m[k]>> \o HotSecond(m, keys \ {k})

-----------------------------------------------------------------------------
(* Inputs.                                                                 *)

Spans == {<<0, 1>>, <<0, 2 * PAGE_SIZE>>, <<PAGE_SIZE, 1>>, <<PAGE_SIZE, 2 * PAGE_SIZE>>}
SpansRerun == {<<0, 1>>, <<0, 2 * PAGE_SIZE>>}
SpansDepend == {<<0, 1>>}

TraceSet(n, spans) ==
  { [i \in 1 .. n |-> [id |-> i - 1, isRead |-> f[i][1],
                       sLBA |-> f[i][2][1], nLB |-> f[i][2][2]]] :
      f \in [1 .. n -> BOOLEAN \X spans] }

Traces(maxLen, spans) == UNION { TraceSet(n, spans) : n \in 0 .. maxLen }

IdsOf(v, isRead) == { v[i].id : i \in { j \in DOMAIN v : v[j].isRead = isRead } }

\* maps keyed by requests of one kind, each with a set of requests of the
\* other kind; an empty set under a key is allowed here
CentricMaps(v, keyIsRead, minSize) ==
  UNION { [K -> { S \in SUBSET IdsOf(v, ~keyIsRead) : Cardinality(S) >= minSize }] :
            K \in SUBSET IdsOf(v, keyIsRead) }

InitLocals ==
  /\ pc = "readBD" /\ ti = 0
  /\ indepReads = 0 /\ depShortReads = 0 /\ depLongReads = 0
  /\ indepWrites = 0 /\ depShortWrites = 0 /\ depLongWrites = 0
  /\ writesLeft = {} /\ write = -1 /\ pageStart = 0 /\ pageEnd = 0
  /\ pageNum = 0 /\ readCounts = << >>
  /\ readsLeft = {} /\ read = -1 /\ idxAccessed = {}
  /\ readCountsTotal = << >> /\ countDuplicate = << >>
  /\ stdout = << >> /\ run = 1

\* traces whose addresses do not matter, both maps free
InitDepend ==
  /\ vTraceData \in Traces(MaxTrace, SpansDepend)
  /\ mReadCentric \in CentricMaps(vTraceData, TRUE, 0)
  /\ mWriteCentric \in CentricMaps(vTraceData, FALSE, 0)
  /\ InitLocals

\* traces with page spans, write-centric map free
InitHot ==
  /\ vTraceData \in Traces(MaxTrace, Spans)
  /\ mReadCentric = EmptyMap
  /\ mWriteCentric \in CentricMaps(vTraceData, FALSE, 0)
  /\ InitLocals

Init ==
  /\ vTraceData \in Traces(MaxTraceRerun, SpansRerun)
  /\ mReadCentric \in CentricMaps(vTraceData, TRUE, 0)
  /\ mWriteCentric \in CentricMaps(vTraceData, FALSE, 0)
  /\ InitLocals

-----------------------------------------------------------------------------
(* analyze and the two functions it calls, step by step.                   *)

\* lines 48-59 with isRead = true, mCentric = mReadCentric
DependStepRead ==
  /\ pc = "readBD" /\ ti < Len(vTraceData)
  /\ LET res == analyzeDependTypes(vTraceData[ti + 1], mReadCentric, TRUE,
                                   indepReads, depShortReads, depLongReads)
     IN  /\ mReadCentric' = res.m
         /\ indepReads' = res.indep
         /\ depShortReads' = res.depShort
         /\ depLongReads' = res.depLong
  /\ ti' = ti + 1
  /\ UNCHANGED <<vTraceData, mWriteCentric, pc, writeBD, hotFrame, stdout, run>>

\* lines 140-147
PrintReadBD ==
  /\ pc = "readBD" /\ ti = Len(vTraceData)
  /\ stdout' = Append(stdout, <<indepReads, depShortReads, depLongReads>>)
  /\ indepWrites' = 0 /\ depShortWrites' = 0 /\ depLongWrites' = 0
  /\ pc' = "writeBD" /\ ti' = 0
  /\ UNCHANGED <<inputs, readBD, hotFrame, run>>

\* lines 48-59 with isRead = false, mCentric = mWriteCentric
DependStepWrite ==
  /\ pc = "writeBD" /\ ti < Len(vTraceData)
  /\ LET res == analyzeDependTypes(vTraceData[ti + 1], mWriteCentric, FALSE,
                                   indepWrites, depShortWrites, depLongWrites)
     IN  /\ mWriteCentric' = res.m
         /\ indepWrites' = res.indep
         /\ depShortWrites' = res.depShort
         /\ depLongWrites' = res.depLong
  /\ ti' = ti + 1
  /\ UNCHANGED <<vTraceData, mReadCentric, pc, readBD, hotFrame, stdout, run>>

\* lines 150-154 and 76
PrintWriteBD ==
  /\ pc = "writeBD" /\ ti = Len(vTraceData)
  /\ stdout' = Append(stdout, <<indepWrites, depShortWrites, depLongWrites>>)
  /\ readCountsTotal' = FreshCounts(readCountsTotal)
  /\ writesLeft' = DOMAIN mWriteCentric
  /\ pc' = "hotWrite" /\ ti' = 0
  /\ UNCHANGED <<inputs, readBD, writeBD, writeFrame, readFrame,
                 countDuplicate, run>>

\* lines 77-90: the next key of the map, its span and its zeroed array
HotWriteBegin ==
  /\ pc = "hotWrite" /\ writesLeft # {}
  /\ LET w == SetMin(writesLeft)
         ps == PageStartOf(At(vTraceData, w))
         pe == PageEndOf(At(vTraceData, w))
     IN  /\ write' = w
         /\ writesLeft' = writesLeft \ {w}
         /\ pageStart' = ps /\ pageEnd' = pe
         /\ pageNum' = PageNum(ps, pe)
         /\ readCounts' = [i \in 0 .. (PageNum(ps, pe) - 1) |-> 0]
         /\ readsLeft' = mWriteCentric[w]
  /\ read' = -1 /\ idxAccessed' = {}
  /\ pc' = "hotReads"
  /\ UNCHANGED <<inputs, ti, readBD, writeBD, readCountsTotal,
                 countDuplicate, stdout, run>>

\* lines 93-107: one dependent read
HotWriteRead ==
  /\ pc = "hotReads" /\ readsLeft # {}
  /\ LET r == SetMin(readsLeft)
         idx == ReadIndices(vTraceData, pageStart, pageEnd, r)
     IN  \E outcome \in AccessOutcomes(idx, pageNum) :
           /\ read' = r
           /\ readsLeft' = readsLeft \ {r}
           /\ idxAccessed' = idx
           /\ readCounts' = [p \in DOMAIN readCounts |->
                               IF p \in idx THEN readCounts[p] + 1
                               ELSE readCounts[p]]
           /\ pc' = IF outcome = "abort" THEN "aborted" ELSE "hotReads"
  /\ UNCHANGED <<inputs, ti, readBD, writeBD, writesLeft, write, pageStart,
                 pageEnd, pageNum, readCountsTotal, countDuplicate, stdout, run>>

\* lines 108-112
HotWriteAppend ==
  /\ pc = "hotReads" /\ readsLeft = {}
  /\ readCountsTotal' = PushBackAll(readCountsTotal, readCounts, 0, pageNum)
  /\ readCounts' = << >>
  /\ write' = -1 /\ pageStart' = 0 /\ pageEnd' = 0 /\ pageNum' = 0
  /\ read' = -1 /\ idxAccessed' = {}
  /\ pc' = "hotWrite"
  /\ UNCHANGED <<inputs, ti, readBD, writeBD, writesLeft, readsLeft,
                 countDuplicate, stdout, run>>

\* lines 114-128
HotWritePrint ==
  /\ pc = "hotWrite" /\ writesLeft = {}
  /\ LET m == CountDuplicate(readCountsTotal, 1, << >>)
     IN  /\ countDuplicate' = m
         /\ stdout' = stdout \o <<HotFirst(m, DOMAIN m), HotSecond(m, DOMAIN m)>>
  /\ pc' = "done"
  /\ UNCHANGED <<inputs, ti, readBD, writeBD, writesLeft, writeFrame,
                 readFrame, readCountsTotal, run>>

\* analyze called again with the same arguments: lines 135-137
Rerun ==
  /\ pc = "done" /\ run < MaxRuns
  /\ run' = run + 1
  /\ indepReads' = 0 /\ depShortReads' = 0 /\ depLongReads' = 0
  /\ countDuplicate' = << >>
  /\ pc' = "readBD"
  /\ UNCHANGED <<inputs, ti, writeBD, writesLeft, writeFrame, readFrame,
                 readCountsTotal, stdout>>

NextOnce ==
  \/ DependStepRead
  \/ PrintReadBD
  \/ DependStepWrite
  \/ PrintWriteBD
  \/ HotWriteBegin
  \/ HotWriteRead
  \/ HotWriteAppend
  \/ HotWritePrint

Next ==
  \/ DependStepRead
  \/ PrintReadBD
  \/ DependStepWrite
  \/ PrintWriteBD
  \/ HotWriteBegin
  \/ HotWriteRead
  \/ HotWriteAppend
  \/ HotWritePrint
  \/ Rerun

Spec == Init /\ [][Next]_vars
SpecDepend == InitDepend /\ [][NextOnce]_vars
SpecHot == InitHot /\ [][NextOnce]_vars

-----------------------------------------------------------------------------
(* What the claims are stated against: the inputs themselves.              *)

N == Len(vTraceData)

\* the first n records of the given direction
OfDirection(n, isRead) == { i \in 1 .. n : vTraceData[i].isRead = isRead }

Absent(n, isRead, m) ==
  { i \in OfDirection(n, isRead) : vTraceData[i].id \notin DOMAIN m }
WithSize(n, isRead, m, lo, hi) ==
  { i \in OfDirection(n, isRead) :
      /\ vTraceData[i].id \in DOMAIN m
      /\ Cardinality(m[vTraceData[i].id]) >= lo
      /\ Cardinality(m[vTraceData[i].id]) <= hi }

NonEmptyKeys(m) == \A k \in DOMAIN m : m[k] # {}

Sum3(line) == line[1] + line[2] + line[3]

RECURSIVE SeqSum(_)
SeqSum(s) == IF s = << >> THEN 0 ELSE Head(s) + SeqSum(Tail(s))

RECURSIVE SpanTotal(_)
SpanTotal(keys) ==
  IF keys = {} THEN 0
  ELSE LET w == SetMin(keys)
       IN  (PageEndOf(At(vTraceData, w)) - PageStartOf(At(vTraceData, w)) + 1)
             + SpanTotal(keys \ {w})

\* the reads of S whose own page span contains the (absolute) page p
ReadsCovering(S, p) ==
  { r \in S : /\ PageStartOf(At(vTraceData, r)) <= p
              /\ p <= PageEndOf(At(vTraceData, r)) }

\* every (write, page) pair of the write-centric map
WritePages ==
  UNION { { <<w, p>> : p \in PageStartOf(At(vTraceData, w)) ..
                              PageEndOf(At(vTraceData, w)) } :
            w \in DOMAIN mWriteCentric }

PairsWithCount(c) ==
  { wp \in WritePages :
      Cardinality(ReadsCovering(mWriteCentric[wp[1]], wp[2])) = c }

Disjoint(r) ==
  \/ PageEndOf(At(vTraceData, r)) < pageStart
  \/ PageStartOf(At(vTraceData, r)) > pageEnd

Processed == mWriteCentric[write] \ readsLeft

-----------------------------------------------------------------------------
\* C1: at every point of a classifier run that started from zeroed
\* counters, independent + singly-dependent + multiply-dependent equals the
\* number of records of the selected direction among those already visited
\* (so each such record adds one to exactly one counter and a record of the
\* other direction adds nothing), and the printed breakdown sums to the
\* number of records of that direction in the whole trace.
C1_BreakdownPartitions ==
  /\ pc = "readBD" =>
       indepReads + depShortReads + depLongReads
         = Cardinality(OfDirection(ti, TRUE))
  /\ pc = "writeBD" =>
       indepWrites + depShortWrites + depLongWrites
         = Cardinality(OfDirection(ti, FALSE))
  /\ Len(stdout) >= 1 => Sum3(stdout[1]) = Cardinality(OfDirection(N, TRUE))
  /\ Len(stdout) >= 2 => Sum3(stdout[2]) = Cardinality(OfDirection(N, FALSE))

C1_Witness ==
  /\ Len(stdout) >= 2
  /\ N = 3
  /\ stdout[1][3] = 1
  /\ stdout[2][1] >= 1
  /\ Sum3(stdout[2]) = 2

\* C2: when every key of the map has a non-empty set, the independent
\* counter counts exactly the visited requests of the direction whose id is
\* not a key, the singly-dependent counter exactly those whose set has one
\* element, the multiply-dependent counter exactly those whose set has more
\* than one element.
C2_ClassifiedBySetSize ==
  /\ (pc = "readBD" /\ NonEmptyKeys(mReadCentric)) =>
       /\ indepReads = Cardinality(Absent(ti, TRUE, mReadCentric))
       /\ depShortReads = Cardinality(WithSize(ti, TRUE, mReadCentric, 1, 1))
       /\ depLongReads = Cardinality(WithSize(ti, TRUE, mReadCentric, 2, N))
  /\ (pc = "writeBD" /\ NonEmptyKeys(mWriteCentric)) =>
       /\ indepWrites = Cardinality(Absent(ti, FALSE, mWriteCentric))
       /\ depShortWrites = Cardinality(WithSize(ti, FALSE, mWriteCentric, 1, 1))
       /\ depLongWrites = Cardinality(WithSize(ti, FALSE, mWriteCentric, 2, N))

C2_Witness ==
  /\ pc = "writeBD" /\ ti = N /\ N = 3
  /\ NonEmptyKeys(mReadCentric) /\ NonEmptyKeys(mWriteCentric)
  /\ depLongReads = 1
  /\ indepWrites = 1 /\ depShortWrites = 1

\* C3: once the simulator has processed every key, the occurrence totals
\* it prints sum to the sum of the page-span lengths of the keys of the
\* write-centric map.
C3_OccurrencesSumToSpans ==
  pc = "done" => SeqSum(stdout[Len(stdout)]) = SpanTotal(DOMAIN mWriteCentric)

C3_Witness ==
  /\ pc = "done"
  /\ \E w \in DOMAIN mWriteCentric : mWriteCentric[w] # {}
  /\ SeqSum(stdout[Len(stdout)]) = 3
  /\ \E i \in 1 .. N : ~vTraceData[i].isRead /\ vTraceData[i].id \notin DOMAIN mWriteCentric

\* C4: for the write being simulated, the counter of each page of its span
\* is the number of already processed dependent reads whose own page span
\* contains that page; when all dependent reads are processed that is the
\* number of reads of the whole dependent set covering the page.
C4_CounterIsCoveringReads ==
  pc = "hotReads" =>
    /\ DOMAIN readCounts = 0 .. (pageEnd - pageStart)
    /\ \A p \in DOMAIN readCounts :
         readCounts[p] = Cardinality(ReadsCovering(Processed, pageStart + p))

C4_Witness ==
  /\ pc = "hotReads" /\ readsLeft = {}
  /\ Cardinality(mWriteCentric[write]) = 2
  /\ readCounts = (0 :> 1 @@ 1 :> 1 @@ 2 :> 0)
  /\ \A r \in mWriteCentric[write] :
       Cardinality({ p \in 0 .. 2 : r \in ReadsCovering({r}, pageStart + p) }) = 1

\* C5: with PAGE_SIZE = 4096, a write with startAddress 0 and lengthBlocks
\* 8192 spans pages 0-1 only: its counter array has exactly two entries, and
\* when its dependent reads cover page 0 twice and page 1 three times the
\* counters are [2, 3].
C5_TwoPageWrite ==
  (/\ PAGE_SIZE = 4096
   /\ pc = "hotReads"
   /\ At(vTraceData, write).sLBA = 0
   /\ At(vTraceData, write).nLB = 8192) =>
     /\ pageStart = 0 /\ pageEnd = 1 /\ pageNum = 2
     /\ DOMAIN readCounts = 0 .. 1
     /\ (/\ readsLeft = {}
         /\ Cardinality(ReadsCovering(mWriteCentric[write], 0)) = 2
         /\ Cardinality(ReadsCovering(mWriteCentric[write], 1)) = 3) =>
           readCounts = (0 :> 2 @@ 1 :> 3)

\* C6: the two printed histogram lines have the same length; the first
\* lists, strictly ascending, exactly the count values some (write, page)
\* pair has; the i-th element of the second is the number of (write, page)
\* pairs with the i-th count value, never zero.
C6_HistogramLines ==
  pc = "done" =>
    LET first == stdout[Len(stdout) - 1]
        second == stdout[Len(stdout)]
    IN  /\ Len(first) = Len(second)
        /\ \A i \in 1 .. (Len(first) - 1) : first[i] < first[i + 1]
        /\ \A wp \in WritePages :
             \E i \in 1 .. Len(first) :
               first[i] = Cardinality(ReadsCovering(mWriteCentric[wp[1]], wp[2]))
        /\ \A i \in 1 .. Len(first) :
             /\ second[i] = Cardinality(PairsWithCount(first[i]))
             /\ second[i] >= 1

C6_Witness ==
  /\ pc = "done"
  /\ stdout[Len(stdout) - 1] = <<0, 1, 2>>
  /\ stdout[Len(stdout)] = <<1, 1, 1>>

\* C7: every later run of the analysis on the same arguments prints the
\* same read breakdown, write breakdown and histogram lines as the run
\* before it.
C7_RerunPrintsTheSame ==
  \A i \in 5 .. Len(stdout) : stdout[i] = stdout[i - 4]

C7_Witness ==
  /\ pc = "done" /\ run = 2 /\ Len(stdout) = 8
  /\ stdout[8] # << >>
  /\ stdout[5][2] = 1
  /\ stdout[6][2] = 1

\* C8: a request whose id is a key with an empty dependent set is counted
\* like a request whose id is not a key: as independent, and in neither
\* dependent category.
C8_EmptySetCountsIndependent ==
  /\ pc = "readBD" =>
       /\ indepReads = Cardinality(Absent(ti, TRUE, mReadCentric)
                                     \cup WithSize(ti, TRUE, mReadCentric, 0, 0))
       /\ depShortReads = Cardinality(WithSize(ti, TRUE, mReadCentric, 1, 1))
       /\ depLongReads = Cardinality(WithSize(ti, TRUE, mReadCentric, 2, N))
  /\ pc = "writeBD" =>
       /\ indepWrites = Cardinality(Absent(ti, FALSE, mWriteCentric)
                                      \cup WithSize(ti, FALSE, mWriteCentric, 0, 0))
       /\ depShortWrites = Cardinality(WithSize(ti, FALSE, mWriteCentric, 1, 1))
       /\ depLongWrites = Cardinality(WithSize(ti, FALSE, mWriteCentric, 2, N))

\* C9: a dependent read whose page span lies entirely before or entirely
\* after the write's span touches no counter: after it is processed the
\* counters are what the other processed reads alone produce, and the
\* simulation goes on.
C9_DisjointReadIsNoOp ==
  (/\ pc \in {"hotReads", "aborted"}
   /\ read # -1
   /\ Disjoint(read)) =>
     /\ pc = "hotReads"
     /\ idxAccessed = {}
     /\ \A p \in DOMAIN readCounts :
          readCounts[p]
            = Cardinality(ReadsCovering(Processed \ {read}, pageStart + p))

C9_Witness ==
  /\ pc = "hotReads" /\ read # -1
  /\ PageEndOf(At(vTraceData, read)) < pageStart
  /\ Processed # {read}
  /\ \E p \in DOMAIN readCounts : readCounts[p] = 1

\* C10: every index at which a counter is incremented lies inside the
\* array of the write being processed, and the simulation never leaves the
\* array.
C10_IndicesInsideArray ==
  /\ pc # "aborted"
  /\ idxAccessed \subseteq 0 .. (pageNum - 1)
  /\ pc = "hotReads" => DOMAIN readCounts = 0 .. (pageNum - 1)

C10_Witness ==
  /\ pc = "hotReads" /\ read # -1
  /\ PageStartOf(At(vTraceData, read)) < pageStart
  /\ PageEndOf(At(vTraceData, read)) > pageEnd
  /\ idxAccessed = 0 .. (pageNum - 1)
  /\ pageNum = 1

=============================================================================
